---- MODULE Spec2Model ----
(***************************************************************************)
(* The equipment scanner page of GymRegister-Frontend: image submission,   *)
(* the analysis job poll loop (pollAnalysisResult / checkStatus), the      *)
(* scanner's React state, the ImageUpload child's asynchronous processFile *)
(* and the persisted analysis history of the asset store.                  *)
(*                                                                         *)
(* Two builds of the page are in the repository: the page as first written *)
(* (variant "base", specification Spec) and the page with the client-side  *)
(* quality assessment (variant "enhanced", specification SpecEnhanced).    *)
(* The poll loop is the same text in both.                                 *)
(***************************************************************************)
EXTENDS Integers, Sequences, FiniteSets, TLC

\* ---------------------------------------------------------------- bounds
\* number of image submissions a behaviour may contain
MaxJobs == 2
\* jobs run concurrently only while each has been retried at most MaxOverlap
\* times: a job is retried further only when it runs alone
MaxOverlap == 1
\* entries the audit log may hold, which is also the number of assets the
\* store may hold
MaxLogs == 2
\* the last millisecond of the clock
MaxClock == 2

\* ------------------------------------------------------ program constants
maxRetries == 30
pollDelayMs == 2000

TimeoutMsg == "Analysis timed out. Please try again."
AnalysisFailedMsg == "Analysis failed"
AnalyzeFallbackMsg == "Failed to analyze image"
CompletedToast == "Equipment analysis completed!"
JobCreatedToast == "Analysis job created. Processing image..."

\* ------------------------------------------------------------ value sets
NULL == "null"
NoJob == 0
Jobs == 1 .. MaxJobs
\* result.status is typed `string`: the four documented values and one other
Statuses == {"pending", "processing", "completed", "failed", "queued"}
\* messages of the errors axios rejects with (network error, non-2xx)
TransportErrors == {"Request failed with status code 500"}
\* error_message: string | null
BackendErrors == {NULL, "", "Image could not be decoded"}
\* result.equipment of a completed response: equipment found, none found
Payloads == {"items", "empty"}
\* what analysisApi.getAnalysisResult can resolve with
Responses ==
    [status : {"completed"}, payload : Payloads, error_message : {NULL}]
    \cup [status : {"failed"}, payload : {NULL}, error_message : BackendErrors]
    \cup [status : Statuses \ {"completed", "failed"}, payload : {NULL}, error_message : {NULL}]
Tiers == {"excellent", "good", "fair", "poor"}

\* every submission carries its own image: base64 data of submission j
Img(j) == "img" \o ToString(j)
\* `data:image/jpeg;base64,${imageData}`
DataUrl(img) == "data:image/jpeg;base64," \o img
\* file.name of an upload, `camera_capture_${Date.now()}.jpg` of a capture
FileName(j) == "file" \o ToString(j) \o ".jpg"

VARIABLES
    variant,          \* which build of the page is running
    mounted,          \* the /scanner route is the current route
    scanner,          \* useState values of the mounted EquipmentScanner
    job,              \* per submission: position of its async chain
    analysisHistory,  \* useAssetStore().analysisHistory (persisted)
    toast,            \* the toast the last step emitted, as <<job, message>>
    assess,           \* a call of the image quality assessor: arguments, results
    store             \* useAssetStore(): assets, auditLogs; the clock; the asset pages

vars == <<variant, mounted, scanner, job, analysisHistory, toast, assess, store>>

\* no call of the assessor is followed
NoAssess == [call |-> "none"]
\* the asset pages are not followed
NoStore == [call |-> "none"]

\* the last step emitted no toast
NoToast == <<NoJob, "">>

\* useState initial values
InitScanner ==
    [ showCamera          |-> FALSE,
      isAnalyzing         |-> FALSE,
      analysisResult      |-> NULL,
      error               |-> NULL,
      capturedImage       |-> NULL,
      imageFileName       |-> "",
      equipmentItems      |-> << >>,
      analysisMetadata    |-> NoJob,
      currentJobId        |-> NoJob,
      analysisStatus      |-> "",
      imageQualityMetrics |-> NULL ]

\* a submission slot not yet used
IdleJob ==
    [ pc         |-> "idle",
      attached   |-> FALSE,  \* the scanner instance that started it is mounted
      upAttached |-> FALSE,  \* the ImageUpload instance that started it is mounted
      cap        |-> NULL,   \* capturedImage closed over by pollAnalysisResult
      created    |-> FALSE,  \* POST /api/analyze has answered with a job_id
      retries    |-> 0,      \* `let retries` of the running poll loop
      checks     |-> 0,      \* status requests issued by the running poll loop
      requests   |-> 0,      \* status requests awaiting their response
      timers     |-> 0,      \* pending setTimeout(checkStatus, ...) callbacks
      delay      |-> 0 ]     \* delay of the pending setTimeout

InitJobs ==
    /\ mounted = TRUE
    /\ scanner = InitScanner
    /\ job = [j \in Jobs |-> IdleJob]
    /\ analysisHistory = << >>
    /\ toast = NoToast

Init == variant = "base" /\ InitJobs /\ assess = NoAssess /\ store = NoStore
InitEnhanced == variant = "enhanced" /\ InitJobs /\ assess = NoAssess /\ store = NoStore

\* ------------------------------------------------------------- rendering
\* {!analysisResult && !isAnalyzing && (<ImageUpload/> ... Quick Actions)}
\* {equipmentItems.length === 0 && !isAnalyzing && (...)} in the enhanced page
UploadVisible(s) ==
    IF variant = "base"
    THEN s.analysisResult = NULL /\ ~s.isAnalyzing
    ELSE Len(s.equipmentItems) = 0 /\ ~s.isAnalyzing

\* {error && (<Alert onClose=... action=<Button>Try Again</Button>>)}
ErrorAlertVisible(s) == s.error # NULL /\ s.error # ""

\* {analysisResult && !isAnalyzing && (... Scan Another ...)}
\* {equipmentItems.length > 0 && !isAnalyzing && (...)} in the enhanced page
ResultsVisible(s) ==
    IF variant = "base"
    THEN s.analysisResult # NULL /\ ~s.isAnalyzing
    ELSE Len(s.equipmentItems) > 0 /\ ~s.isAnalyzing

\* ImageUpload.isProcessing of the mounted ImageUpload instance
isProcessing == \E j \in Jobs : job[j].pc = "processing" /\ job[j].upAttached

\* job j is polled: a status request is outstanding or a follow-up is scheduled
Outstanding(j) == job[j].requests + job[j].timers > 0
Terminal(j) == job[j].pc \in {"completed", "failed"}
\* submitted and not ended
NonTerminal(j) == job[j].pc \in {"submitting", "polling"}
Active(j) ==
    \/ job[j].pc \in {"processing", "quality", "submitting"}
    \/ Outstanding(j)

\* the next unused submission slot; no submission starts while a job is
\* beyond its first MaxOverlap retries
NextSlot(j) ==
    /\ job[j].pc = "idle"
    /\ \A i \in Jobs : i < j => job[i].pc # "idle"
    /\ \A i \in Jobs : job[i].retries <= MaxOverlap

\* After a render the ImageUpload child is unmounted when its section is not
\* shown; its state (isProcessing) is lost with it.
Rendered(jb, s, m) ==
    [j \in Jobs |->
        [jb[j] EXCEPT !.upAttached = @ /\ m /\ UploadVisible(s)
                                       /\ jb[j].pc = "processing"]]

\* setState of an unmounted component instance is dropped
Effect(j, s) == IF job[j].attached THEN s ELSE scanner

\* ------------------------------------------------------------ analyzeImage
\* the synchronous prefix of analyzeImage, up to its first await
AnalyzeStart(s, j, fileName) ==
    [s EXCEPT !.isAnalyzing = TRUE,
              !.error = NULL,
              !.equipmentItems = << >>,
              !.analysisMetadata = NoJob,
              !.analysisResult = NULL,
              !.capturedImage = DataUrl(Img(j)),
              !.imageFileName = fileName,
              !.analysisStatus = "pending",
              !.imageQualityMetrics = NULL]

\* a catch block of analyzeImage that leaves the progress indicator on
AnalyzeCatch_Mutant(s, msg) ==
    [s EXCEPT !.error = msg,
              !.currentJobId = NoJob,
              !.imageQualityMetrics = NULL]

\* the catch block of analyzeImage
AnalyzeCatch(s, msg) ==
    [s EXCEPT !.error = msg,
              !.isAnalyzing = FALSE,
              !.currentJobId = NoJob,
              !.imageQualityMetrics = NULL]

\* a catch block that leaves the progress indicator on
CheckCatch_Mutant(s, msg) ==
    [s EXCEPT !.error = msg,
              !.currentJobId = NoJob]

\* the catch block of checkStatus
CheckCatch(s, msg) ==
    [s EXCEPT !.error = msg,
              !.isAnalyzing = FALSE,
              !.currentJobId = NoJob]

FirstAwait == IF variant = "enhanced" THEN "quality" ELSE "submitting"

\* an end that falls through to the follow-up timer
Ended_Mutant(jr, pc) ==
    [IdleJob EXCEPT !.pc = pc, !.created = jr.created,
                    !.requests = jr.requests, !.timers = jr.timers + 1]

\* the async chain of a submission has ended: nothing refers to its closures
\* (retries, capturedImage, the setters) any more; requests and timers that
\* are still pending stay pending
Ended(jr, pc) ==
    [IdleJob EXCEPT !.pc = pc, !.created = jr.created,
                    !.requests = jr.requests, !.timers = jr.timers]

\* ------------------------------------------------------------ ImageUpload
\* onDrop -> processFile: validation passes the synchronous part and the
\* file is being compressed; the dropzone is disabled while isAnalyzing or
\* isProcessing.
DropFile(j) ==
    /\ mounted /\ UploadVisible(scanner) /\ ~scanner.showCamera
    /\ ~isProcessing
    /\ NextSlot(j)
    /\ job' = [job EXCEPT ![j] = [IdleJob EXCEPT !.pc = "processing",
                                                 !.attached = TRUE,
                                                 !.upAttached = TRUE,
                                                 !.cap = scanner.capturedImage]]
    /\ toast' = NoToast
    /\ UNCHANGED <<variant, assess, store, mounted, scanner, analysisHistory>>

\* processFile throws (type, size, compression): nothing reaches the scanner
ProcessFileFail(j) ==
    /\ job[j].pc = "processing"
    /\ job' = [job EXCEPT ![j] = Ended(job[j], "rejected")]
    /\ toast' = NoToast
    /\ UNCHANGED <<variant, assess, store, mounted, scanner, analysisHistory>>

\* processFile resolves: onImageSelect -> handleImageUpload -> analyzeImage
ProcessFileDone(j) ==
    /\ job[j].pc = "processing"
    /\ LET s2 == Effect(j, AnalyzeStart(scanner, j, FileName(j)))
           jb == [job EXCEPT ![j].pc = FirstAwait]
       IN /\ scanner' = s2
          /\ job' = Rendered(jb, s2, mounted)
    /\ toast' = NoToast
    /\ UNCHANGED <<variant, assess, store, mounted, analysisHistory>>

\* ----------------------------------------------------------------- camera
\* openCamera: "Use Camera" of ImageUpload (disabled while isProcessing) or
\* "Open Camera" of Quick Actions (not disabled)
OpenCamera ==
    /\ mounted /\ UploadVisible(scanner) /\ ~scanner.showCamera
    /\ scanner' = [scanner EXCEPT !.showCamera = TRUE]
    /\ toast' = NoToast
    /\ UNCHANGED <<variant, assess, store, mounted, job, analysisHistory>>

CloseCamera ==
    /\ mounted /\ scanner.showCamera
    /\ scanner' = [scanner EXCEPT !.showCamera = FALSE]
    /\ toast' = NoToast
    /\ UNCHANGED <<variant, assess, store, mounted, job, analysisHistory>>

\* capturePhoto (button disabled while isAnalyzing) -> handleCameraCapture
HandleCameraCapture(j) ==
    /\ mounted /\ scanner.showCamera /\ ~scanner.isAnalyzing
    /\ NextSlot(j)
    /\ LET s2 == AnalyzeStart([scanner EXCEPT !.showCamera = FALSE], j, FileName(j))
           jb == [job EXCEPT ![j] = [IdleJob EXCEPT !.pc = FirstAwait,
                                                   !.attached = TRUE,
                                                   !.cap = scanner.capturedImage]]
       IN /\ scanner' = s2
          /\ job' = Rendered(jb, s2, mounted)
    /\ toast' = NoToast
    /\ UNCHANGED <<variant, assess, store, mounted, analysisHistory>>

\* --------------------------------------------- quality assessment (enhanced)
\* the notification functions of the default export of react-hot-toast
ToastMethods == {"success", "error", "loading", "custom"}
\* the function the feedback of a tier is shown with
FeedbackMethod(tier) ==
    IF tier = "poor" THEN "error" ELSE IF tier = "fair" THEN "warning" ELSE "success"
\* message of the TypeError thrown by calling a function the library lacks
QualityWarnMsg == "toast.warning is not a function"
QualityToast(tier) ==
    IF tier = "poor" THEN "Image quality is poor. Consider retaking for better results."
    ELSE IF tier = "fair" THEN "Image quality is fair. Results may vary."
    ELSE "Image quality is " \o tier \o "! Proceeding with analysis."

\* img.onload: analyzeImageQuality computes tier, setImageQualityMetrics, the
\* feedback toast; when the feedback call throws, the promise rejects and the
\* catch block of analyzeImage runs
QualityDone(j, tier) ==
    /\ job[j].pc = "quality"
    /\ IF FeedbackMethod(tier) \in ToastMethods
       THEN /\ LET s2 == Effect(j, [scanner EXCEPT !.imageQualityMetrics = tier])
                   jb == [job EXCEPT ![j].pc = "submitting"]
               IN /\ scanner' = s2
                  /\ job' = Rendered(jb, s2, mounted)
            /\ toast' = <<j, QualityToast(tier)>>
       ELSE /\ LET s1 == [scanner EXCEPT !.imageQualityMetrics = tier]
                   s2 == Effect(j, AnalyzeCatch(s1, QualityWarnMsg))
                   jb == [job EXCEPT ![j] = Ended(job[j], "failed")]
               IN /\ scanner' = s2
                  /\ job' = Rendered(jb, s2, mounted)
            /\ toast' = <<j, QualityWarnMsg>>
    /\ UNCHANGED <<variant, assess, store, mounted, analysisHistory>>

\* img.onerror fires (the image does not decode): the promise rejects with an
\* event, the catch block of analyzeImage runs with its fallback message
QualityReject(j, msg) ==
    /\ job[j].pc = "quality"
    /\ LET s2 == Effect(j, AnalyzeCatch(scanner, msg))
           jb == [job EXCEPT ![j] = Ended(job[j], "failed")]
       IN /\ scanner' = s2
          /\ job' = Rendered(jb, s2, mounted)
    /\ toast' = <<j, msg>>
    /\ UNCHANGED <<variant, assess, store, mounted, analysisHistory>>

\* ------------------------------------------------------------ checkStatus
\* a check that sends its request twice
IssueCheck_Mutant(jr) == [jr EXCEPT !.requests = @ + 2, !.checks = @ + 1]

\* checkStatus is entered: analysisApi.getAnalysisResult(jobId) is called
IssueCheck(jr) == [jr EXCEPT !.requests = @ + 1, !.checks = @ + 1]

\* a follow-up that calls checkStatus directly instead of through the timer
Schedule_Mutant(jr) ==
    [jr EXCEPT !.retries = @ + 1, !.requests = @ + 1, !.checks = @ + 1]

\* retries++; setTimeout(checkStatus, 2000)
Schedule(jr) ==
    [jr EXCEPT !.retries = @ + 1, !.timers = @ + 1, !.delay = pollDelayMs]

\* the budget test off by one
MayRetry_Mutant(r) == r <= maxRetries

\* `retries < maxRetries` : one more check may be scheduled
MayRetry(r) == r < maxRetries


\* no fallback for a missing error_message
FailedMessage_Mutant(r) == r.error_message

\* the error thrown for a response with status 'failed'
FailedMessage(r) ==
    IF r.error_message \in {NULL, ""} THEN AnalysisFailedMsg ELSE r.error_message

\* what addAnalysisResult receives from job j: image: capturedImage || ''
HistoryEntry(j) ==
    [ id |-> j, image |-> IF job[j].cap # NULL THEN job[j].cap ELSE "" ]

\* addAnalysisResult of the store
addAnalysisResult(h, entry) == Append(h, entry)

\* result.result.equipment of the completed response of job j
Equipment(j, payload) == IF payload = "items" THEN <<j>> ELSE << >>

\* the catch block of checkStatus ends job j (record jr) with message msg
Failed(j, jr, s, msg) ==
    /\ LET s2 == Effect(j, CheckCatch(s, msg))
       IN /\ scanner' = s2
          /\ job' = Rendered([job EXCEPT ![j] = Ended(jr, "failed")], s2, mounted)
    /\ toast' = <<j, msg>>
    /\ UNCHANGED analysisHistory

\* the branch for status 'completed'
Completed(j, jr, s, payload) ==
    /\ LET s2 == Effect(j, [s EXCEPT !.equipmentItems = Equipment(j, payload),
                                     !.analysisMetadata = j,
                                     !.isAnalyzing = FALSE,
                                     !.currentJobId = NoJob])
       IN /\ scanner' = s2
          /\ job' = Rendered([job EXCEPT ![j] = Ended(jr, "completed")], s2, mounted)
    /\ analysisHistory' = addAnalysisResult(analysisHistory, HistoryEntry(j))
    /\ toast' = <<j, CompletedToast>>

\* analysisApi.analyzeImage resolves: setCurrentJobId, toast, then
\* pollAnalysisResult runs checkStatus up to its await: check #1 is issued
SubmitOk(j) ==
    /\ job[j].pc = "submitting"
    /\ LET s2 == Effect(j, [scanner EXCEPT !.currentJobId = j])
           jb == [job EXCEPT ![j] = IssueCheck([job[j] EXCEPT !.pc = "polling",
                                                          !.created = TRUE])]
       IN /\ scanner' = s2
          /\ job' = Rendered(jb, s2, mounted)
    /\ toast' = <<j, JobCreatedToast>>
    /\ UNCHANGED <<variant, assess, store, mounted, analysisHistory>>

\* analysisApi.analyzeImage rejects: the catch block of analyzeImage
SubmitFail(j, msg) ==
    /\ job[j].pc = "submitting"
    /\ LET s2 == Effect(j, AnalyzeCatch(scanner, msg))
           jb == [job EXCEPT ![j] = Ended(job[j], "failed")]
       IN /\ scanner' = s2
          /\ job' = Rendered(jb, s2, mounted)
    /\ toast' = <<j, msg>>
    /\ UNCHANGED <<variant, assess, store, mounted, analysisHistory>>

\* the GET of job j resolves with response r; the body of the try block
StatusResponse(j, r) ==
    /\ job[j].requests > 0
    \* the backend keeps a job waiting beyond MaxOverlap retries only when
    \* no other job is running
    /\ r.status \in {"pending", "processing"} =>
          job[j].retries < MaxOverlap \/ \A i \in Jobs \ {j} : ~Active(i)
    /\ LET s1 == [scanner EXCEPT !.analysisStatus = r.status]
           jr == [job[j] EXCEPT !.requests = @ - 1]
       IN
       CASE r.status = "completed" ->
              Completed(j, jr, s1, r.payload)
         [] r.status = "failed" ->
              Failed(j, jr, s1, FailedMessage(r))
         [] r.status \in {"pending", "processing"} ->
              IF MayRetry(jr.retries)
              THEN /\ LET s2 == Effect(j, s1)
                      IN /\ scanner' = s2
                         /\ job' = Rendered([job EXCEPT ![j] = Schedule(jr)], s2, mounted)
                   /\ toast' = NoToast
                   /\ UNCHANGED analysisHistory
              ELSE Failed(j, jr, s1, TimeoutMsg)
         [] OTHER ->
              \* no branch of the if-chain matches: nothing is scheduled and
              \* nothing ends the job
              /\ LET s2 == Effect(j, s1)
                 IN /\ scanner' = s2
                    /\ job' = Rendered([job EXCEPT ![j] = Ended(jr, jr.pc)], s2, mounted)
              /\ toast' = NoToast
              /\ UNCHANGED analysisHistory
    /\ UNCHANGED <<variant, assess, store, mounted>>

\* the GET of job j rejects (network error, non-2xx): straight to the catch
StatusError(j, msg) ==
    /\ job[j].requests > 0
    /\ Failed(j, [job[j] EXCEPT !.requests = @ - 1], scanner, msg)
    /\ UNCHANGED <<variant, assess, store, mounted>>

\* setTimeout(checkStatus, 2000) fires: the next check is issued
TimerFire(j) ==
    /\ job[j].timers > 0
    /\ job' = [job EXCEPT ![j] = IssueCheck([job[j] EXCEPT !.timers = @ - 1, !.delay = 0])]
    /\ toast' = NoToast
    /\ UNCHANGED <<variant, assess, store, mounted, scanner, analysisHistory>>

\* ------------------------------------------------------------ user actions
resetScanner(s) ==
    [s EXCEPT !.analysisResult = NULL,
              !.error = NULL,
              !.capturedImage = NULL,
              !.imageFileName = ""]

resetScannerComplete(s) ==
    [s EXCEPT !.analysisResult = NULL,
              !.equipmentItems = << >>,
              !.analysisMetadata = NoJob,
              !.error = NULL,
              !.capturedImage = NULL,
              !.imageFileName = "",
              !.currentJobId = NoJob,
              !.analysisStatus = ""]

\* base page: "Try Again" of the error alert, the buttons of the results panel
ResetScanner ==
    /\ variant = "base"
    /\ mounted /\ ~scanner.showCamera
    /\ ErrorAlertVisible(scanner) \/ ResultsVisible(scanner)
    /\ LET s2 == resetScanner(scanner)
       IN /\ scanner' = s2
          /\ job' = Rendered(job, s2, mounted)
    /\ toast' = NoToast
    /\ UNCHANGED <<variant, assess, store, mounted, analysisHistory>>

\* enhanced page: "Try Again", "Scan Another" and the refresh button
ResetScannerComplete ==
    /\ variant = "enhanced"
    /\ mounted /\ ~scanner.showCamera
    /\ ErrorAlertVisible(scanner) \/ ResultsVisible(scanner)
    /\ LET s2 == resetScannerComplete(scanner)
       IN /\ scanner' = s2
          /\ job' = Rendered(job, s2, mounted)
    /\ toast' = NoToast
    /\ UNCHANGED <<variant, assess, store, mounted, analysisHistory>>

\* onClose of the error alert
DismissError ==
    /\ mounted /\ ~scanner.showCamera
    /\ ErrorAlertVisible(scanner)
    /\ scanner' = [scanner EXCEPT !.error = NULL]
    /\ toast' = NoToast
    /\ UNCHANGED <<variant, assess, store, mounted, job, analysisHistory>>

\* the route changes: the scanner unmounts and its state is gone; nothing
\* cancels the pending promises and timers of its jobs
NavigateAway ==
    /\ mounted
    /\ mounted' = FALSE
    /\ scanner' = InitScanner
    /\ job' = [j \in Jobs |-> [job[j] EXCEPT !.attached = FALSE, !.upAttached = FALSE]]
    /\ toast' = NoToast
    /\ UNCHANGED <<variant, assess, store, analysisHistory>>

\* the route is /scanner again: a new instance with initial state
NavigateBack ==
    /\ ~mounted
    /\ mounted' = TRUE
    /\ scanner' = InitScanner
    /\ toast' = NoToast
    /\ UNCHANGED <<variant, assess, store, job, analysisHistory>>

\* what both builds of the page do
NextCommon ==
    \/ \E j \in Jobs : DropFile(j)
    \/ \E j \in Jobs : ProcessFileFail(j)
    \/ \E j \in Jobs : ProcessFileDone(j)
    \/ OpenCamera
    \/ CloseCamera
    \/ \E j \in Jobs : HandleCameraCapture(j)
    \/ \E j \in Jobs : SubmitOk(j)
    \/ \E j \in Jobs, msg \in TransportErrors : SubmitFail(j, msg)
    \/ \E j \in Jobs, r \in Responses : StatusResponse(j, r)
    \/ \E j \in Jobs, msg \in TransportErrors : StatusError(j, msg)
    \/ \E j \in Jobs : TimerFire(j)
    \/ DismissError
    \/ NavigateAway
    \/ NavigateBack

Next ==
    \/ NextCommon
    \/ ResetScanner

NextEnhanced ==
    \/ NextCommon
    \/ ResetScannerComplete
    \/ \E j \in Jobs, tier \in Tiers : QualityDone(j, tier)
    \/ \E j \in Jobs, msg \in {AnalyzeFallbackMsg} : QualityReject(j, msg)

Spec == Init /\ [][Next]_vars
SpecEnhanced == InitEnhanced /\ [][NextEnhanced]_vars

TypeOK ==
    /\ variant \in {"base", "enhanced", "assessor", "store"}
    /\ mounted \in BOOLEAN
    /\ \A j \in Jobs : job[j].retries \in 0 .. maxRetries
    /\ Len(analysisHistory) <= MaxJobs

\* ======================================================================
\* The image quality assessor (ImageAnalysisUtils)
\* ======================================================================
\* largest value of a colour channel and of a metric (Uint8ClampedArray)
MaxByte == 255
\* pixel counts of 640x480, 1280x720 and 1920x1080
Pixels640 == 307200
Pixels1280 == 921600
Pixels1920 == 2073600

RecIncreaseLight == "Increase lighting or move to a brighter area"
RecReduceLight == "Reduce lighting or avoid direct sunlight"
RecContrast == "Improve contrast by adjusting lighting or background"
RecSharpness == "Hold camera steady and ensure equipment is in focus"
RecResolution == "Move closer to equipment or use higher camera resolution"
RecOptimal == "Image quality is optimal for analysis!"

\* the brightness sub-score with the two lower bands exchanged
BrightnessScore_Mutant(b) ==
    IF b >= 120 /\ b <= 180 THEN 3
    ELSE IF b >= 100 /\ b <= 200 THEN 1
    ELSE IF b >= 80 /\ b <= 220 THEN 2
    ELSE 0

\* Brightness score (optimal range: 120-180)
BrightnessScore(b) ==
    IF b >= 120 /\ b <= 180 THEN 3
    ELSE IF b >= 100 /\ b <= 200 THEN 2
    ELSE IF b >= 80 /\ b <= 220 THEN 1
    ELSE 0

\* Contrast score
ContrastScore(c) ==
    IF c >= 50 /\ c <= 80 THEN 3
    ELSE IF c >= 30 /\ c <= 100 THEN 2
    ELSE IF c >= 20 /\ c <= 120 THEN 1
    ELSE 0

\* Sharpness score
SharpnessScore(sh) ==
    IF sh >= 15 THEN 3 ELSE IF sh >= 10 THEN 2 ELSE IF sh >= 5 THEN 1 ELSE 0

\* Resolution score
ResolutionScore(pixels) ==
    IF pixels >= Pixels1920 THEN 3
    ELSE IF pixels >= Pixels1280 THEN 2
    ELSE IF pixels >= Pixels640 THEN 1
    ELSE 0

\* `let score` of determineQuality before the tier is chosen
QualityScore(b, c, sh, pixels) ==
    BrightnessScore(b) + ContrastScore(c) + SharpnessScore(sh) + ResolutionScore(pixels)

\* tier thresholds compared with > instead of >=
determineQuality_Mutant(b, c, sh, pixels) ==
    LET score == QualityScore(b, c, sh, pixels)
    IN IF score > 10 THEN "excellent"
       ELSE IF score > 7 THEN "good"
       ELSE IF score > 4 THEN "fair"
       ELSE "poor"

determineQuality(b, c, sh, pixels) ==
    LET score == QualityScore(b, c, sh, pixels)
    IN IF score >= 10 THEN "excellent"
       ELSE IF score >= 7 THEN "good"
       ELSE IF score >= 4 THEN "fair"
       ELSE "poor"

\* a brightness branch that only knows the dark case
LightingRecommendation_Mutant(b) ==
    IF b < 80 THEN <<RecIncreaseLight>> ELSE << >>

\* Brightness recommendations: the if / else-if of generateRecommendations
LightingRecommendation(b) ==
    IF b < 80 THEN <<RecIncreaseLight>>
    ELSE IF b > 220 THEN <<RecReduceLight>>
    ELSE << >>

\* the resolution recommendation pushed before the sharpness recommendation
generateRecommendations_Mutant(b, c, sh, pixels) ==
    LET recommendations ==
            LightingRecommendation(b)
            \o (IF c < 20 THEN <<RecContrast>> ELSE << >>)
            \o (IF pixels < Pixels640 THEN <<RecResolution>> ELSE << >>)
            \o (IF sh < 5 THEN <<RecSharpness>> ELSE << >>)
    IN IF Len(recommendations) = 0 THEN <<RecOptimal>> ELSE recommendations

generateRecommendations(b, c, sh, pixels) ==
    LET recommendations ==
            LightingRecommendation(b)
            \o (IF c < 20 THEN <<RecContrast>> ELSE << >>)
            \o (IF sh < 5 THEN <<RecSharpness>> ELSE << >>)
            \o (IF pixels < Pixels640 THEN <<RecResolution>> ELSE << >>)
    IN IF Len(recommendations) = 0 THEN <<RecOptimal>> ELSE recommendations

\* ------------------------------------------------ the assessor on metrics
\* argument values: every threshold of the scoring with its neighbours
Brightnesses ==
    {0, 50, 79, 80, 81, 99, 100, 101, 119, 120, 121, 150,
     179, 180, 181, 199, 200, 201, 219, 220, 221, 255}
Contrasts == {0, 19, 20, 21, 29, 30, 49, 50, 65, 80, 81, 100, 101, 120, 121}
Sharpnesses == {0, 4, 5, 9, 10, 14, 15, 20}
PixelCounts ==
    {76800, Pixels640 - 1, Pixels640, Pixels1280 - 1, Pixels1280,
     Pixels1920 - 1, Pixels1920}

\* analyzeImageQuality has computed the four metrics of an image
InitMetrics ==
    /\ variant = "assessor"
    /\ InitJobs
    /\ store = NoStore
    /\ assess \in [ call : {"metrics"},
                    stage : {"metrics"},
                    brightness : Brightnesses,
                    contrast : Contrasts,
                    sharpness : Sharpnesses,
                    pixels : PixelCounts,
                    quality : {NULL},
                    recommendations : {<< >>} ]

\* const quality = this.determineQuality(brightness, contrast, sharpness, width * height)
DetermineQuality ==
    /\ assess.call \in {"metrics", "image"} /\ assess.stage = "metrics"
    /\ assess' = [assess EXCEPT !.stage = "quality",
                                 !.quality =
                     determineQuality(assess.brightness, assess.contrast,
                                      assess.sharpness, assess.pixels)]
    /\ UNCHANGED <<variant, store, mounted, scanner, job, analysisHistory, toast>>

\* const recommendations = this.generateRecommendations(...)
GenerateRecommendations ==
    /\ assess.call \in {"metrics", "image"} /\ assess.stage = "quality"
    /\ assess' = [assess EXCEPT !.stage = "done",
                                 !.recommendations =
                     generateRecommendations(assess.brightness, assess.contrast,
                                             assess.sharpness, assess.pixels)]
    /\ UNCHANGED <<variant, store, mounted, scanner, job, analysisHistory, toast>>

NextMetrics ==
    \/ DetermineQuality
    \/ GenerateRecommendations

SpecMetrics == InitMetrics /\ [][NextMetrics]_vars

\* ----------------------------------------------------------------------
\* The metrics of a canvas (calculateBrightness, calculateContrast,
\* calculateSharpness).  Luminance is kept in thousandths, so that
\* 0.299 R + 0.587 G + 0.114 B is the integer 299 R + 587 G + 114 B; the
\* canvases analysed are those on which this arithmetic and the double
\* arithmetic of the code give the same three metrics.
\* ----------------------------------------------------------------------
\* canvas.width, canvas.height of the canvases analysed
Sizes == {<<1, 1>>, <<2, 3>>, <<3, 2>>, <<3, 3>>, <<3, 4>>, <<4, 3>>, <<4, 4>>}
\* colours <<R, G, B>> of the canvases analysed
Colours ==
    {<<0, 0, 0>>, <<255, 255, 255>>, <<0, 0, 250>>, <<1, 0, 0>>,
     <<128, 128, 128>>, <<0, 12, 4>>, <<100, 100, 100>>, <<102, 102, 102>>,
     <<200, 30, 90>>, <<250, 0, 0>>, <<0, 250, 0>>, <<10, 20, 30>>}
\* pairs of colours on the two sides of an edge
Edges ==
    {<<(<<100, 100, 100>>), (<<102, 102, 102>>)>>,
     <<(<<10, 20, 30>>), (<<12, 22, 32>>)>>,
     <<(<<128, 128, 128>>), (<<130, 128, 128>>)>>}

\* the pixels of a canvas, by <<x, y>>
Uniform(w, h, c) == [p \in (0 .. w - 1) \X (0 .. h - 1) |-> c]
VerticalEdge(w, h, c, e) ==
    [p \in (0 .. w - 1) \X (0 .. h - 1) |-> IF p[1] = 0 THEN c ELSE e]
HorizontalEdge(w, h, c, e) ==
    [p \in (0 .. w - 1) \X (0 .. h - 1) |-> IF p[2] = 0 THEN c ELSE e]

\* ctx.getImageData(0, 0, width, height).data: the bytes R, G, B, A of the
\* pixels row by row, indexed from 0
getImageData(w, h, pixel) ==
    [i \in 0 .. 4 * w * h - 1 |->
        IF i % 4 = 3 THEN MaxByte
        ELSE pixel[<<(i \div 4) % w, (i \div 4) \div w>>][(i % 4) + 1]]

Canvases ==
    UNION {
        {[width |-> s[1], height |-> s[2],
          data |-> getImageData(s[1], s[2], Uniform(s[1], s[2], c))] :
            c \in Colours}
        \cup
        {[width |-> s[1], height |-> s[2],
          data |-> getImageData(s[1], s[2],
                                VerticalEdge(s[1], s[2], d[1], d[2]))] :
            d \in Edges}
        \cup
        {[width |-> s[1], height |-> s[2],
          data |-> getImageData(s[1], s[2],
                                HorizontalEdge(s[1], s[2], d[1], d[2]))] :
            d \in Edges} : s \in Sizes}

\* data.length
DataLength(data) == Cardinality(DOMAIN data)

\* 0.299 * data[i] + 0.587 * data[i + 1] + 0.114 * data[i + 2], in thousandths
Luminance(data, i) == 299 * data[i] + 587 * data[i + 1] + 114 * data[i + 2]

\* Math.round(num / den) for num >= 0 and den > 0: halves round up
Round(num, den) == (2 * num + den) \div (2 * den)

\* the largest k in lo .. hi with k * k <= x
RECURSIVE SqrtSearch(_, _, _)
SqrtSearch(x, lo, hi) ==
    IF lo = hi THEN lo
    ELSE LET mid == (lo + hi + 1) \div 2
         IN  IF mid * mid <= x THEN SqrtSearch(x, mid, hi)
             ELSE SqrtSearch(x, lo, mid - 1)
\* Math.sqrt, rounded down to an integer (exact on the squares)
Sqrt(x) == SqrtSearch(x, 0, 46340)

\* for (let i = 0; i < data.length; i += 4) sum += luminance
RECURSIVE SumLuminance(_, _)
SumLuminance(data, i) ==
    IF i >= DataLength(data) THEN 0
    ELSE Luminance(data, i) + SumLuminance(data, i + 4)

calculateBrightness(data) ==
    Round(SumLuminance(data, 0), 1000 * (DataLength(data) \div 4))

\* for (...) variance += Math.pow(luminance - brightness, 2), in millionths
RECURSIVE SumVariance(_, _, _)
SumVariance(data, brightness, i) ==
    IF i >= DataLength(data) THEN 0
    ELSE (Luminance(data, i) - 1000 * brightness)
            * (Luminance(data, i) - 1000 * brightness)
         + SumVariance(data, brightness, i + 4)

\* Math.round(Math.sqrt(variance / (data.length / 4))); the mean it uses is
\* the rounded brightness
calculateContrast(data) ==
    LET brightness == calculateBrightness(data)
        variance == SumVariance(data, brightness, 0)
        standardDeviation == Sqrt(variance \div (DataLength(data) \div 4))
    IN  Round(standardDeviation, 1000)

getGrayscale(data, idx) ==
    IF idx < 0 \/ idx >= DataLength(data) THEN 0 ELSE Luminance(data, idx)

\* the Sobel gradients at the pixel of index idx
SobelX(data, width, idx) ==
      0 - getGrayscale(data, idx - width * 4 - 4)
    + getGrayscale(data, idx - width * 4 + 4)
    - 2 * getGrayscale(data, idx - 4)
    + 2 * getGrayscale(data, idx + 4)
    - getGrayscale(data, idx + width * 4 - 4)
    + getGrayscale(data, idx + width * 4 + 4)
SobelY(data, width, idx) ==
      0 - getGrayscale(data, idx - width * 4 - 4)
    - 2 * getGrayscale(data, idx - width * 4)
    - getGrayscale(data, idx - width * 4 + 4)
    + getGrayscale(data, idx + width * 4 - 4)
    + 2 * getGrayscale(data, idx + width * 4)
    + getGrayscale(data, idx + width * 4 + 4)

\* the pixels visited by the loops y = 1 .. height - 2, x = 1 .. width - 2
Interior(width, height) == (1 .. width - 2) \X (1 .. height - 2)

\* sharpnessSum over a set of pixels
RECURSIVE SumGradient(_, _, _)
SumGradient(data, width, ps) ==
    IF ps = {} THEN 0
    ELSE LET p == CHOOSE q \in ps : TRUE
             idx == (p[2] * width + p[1]) * 4
             gx == SobelX(data, width, idx)
             gy == SobelY(data, width, idx)
         IN  Sqrt(gx * gx + gy * gy) + SumGradient(data, width, ps \ {p})

\* a sharpness that divides the sum by the number of all pixels
calculateSharpness_Mutant(data, width, height) ==
    LET count == width * height
    IN  IF count > 0
        THEN Round(SumGradient(data, width, Interior(width, height)),
                   1000 * count)
        ELSE 0

\* Math.round(count > 0 ? sharpnessSum / count : 0)
calculateSharpness(data, width, height) ==
    LET count == Cardinality(Interior(width, height))
    IN  IF count > 0
        THEN Round(SumGradient(data, width, Interior(width, height)),
                   1000 * count)
        ELSE 0

\* analyzeImageQuality has read the pixel data of a canvas
InitImage ==
    /\ variant = "assessor"
    /\ InitJobs
    /\ store = NoStore
    /\ \E cv \in Canvases :
          assess = [call |-> "image", stage |-> "image",
                    width |-> cv.width, height |-> cv.height,
                    data |-> cv.data,
                    brightness |-> NULL, contrast |-> NULL,
                    sharpness |-> NULL, pixels |-> cv.width * cv.height,
                    quality |-> NULL, recommendations |-> << >>]

\* const brightness = this.calculateBrightness(data)
CalculateBrightness ==
    /\ assess.call = "image" /\ assess.stage = "image"
    /\ assess' = [assess EXCEPT !.stage = "brightness",
                                 !.brightness = calculateBrightness(assess.data)]
    /\ UNCHANGED <<variant, store, mounted, scanner, job, analysisHistory, toast>>

\* const contrast = this.calculateContrast(data)
CalculateContrast ==
    /\ assess.call = "image" /\ assess.stage = "brightness"
    /\ assess' = [assess EXCEPT !.stage = "contrast",
                                 !.contrast = calculateContrast(assess.data)]
    /\ UNCHANGED <<variant, store, mounted, scanner, job, analysisHistory, toast>>

\* const sharpness = this.calculateSharpness(data, width, height)
CalculateSharpness ==
    /\ assess.call = "image" /\ assess.stage = "contrast"
    /\ assess' = [assess EXCEPT !.stage = "metrics",
                                 !.sharpness =
                     calculateSharpness(assess.data, assess.width, assess.height)]
    /\ UNCHANGED <<variant, store, mounted, scanner, job, analysisHistory, toast>>

NextImage ==
    \/ CalculateBrightness
    \/ CalculateContrast
    \/ CalculateSharpness
    \/ DetermineQuality
    \/ GenerateRecommendations

SpecImage == InitImage /\ [][NextImage]_vars

\* ======================================================================
\* The asset store (useAssetStore)
\* ======================================================================
\* notes of the audit entries
DeletedNote == "Asset removed from system"
SearchPageNote == "Location updated from search page"

\* asset tags as they can be typed or stored
AssetTags == {"DB-001", "db-001", "KB-025"}
\* String.prototype.toLowerCase and toUpperCase on the tags
toLowerCase(t) ==
    IF t = "DB-001" THEN "db-001" ELSE IF t = "KB-025" THEN "kb-025" ELSE t
toUpperCase(t) ==
    IF t = "db-001" THEN "DB-001" ELSE IF t = "kb-025" THEN "KB-025" ELSE t
\* locations, equipment types and notes of the assets
Locations == {"Rack A", "Rack B"}
ItemTypes == {"Dumbbell"}
AssetNotes == {"Handle with care"}

\* ids a caller can pass: those the clock has issued and one it never issued
AssetIds == 0 .. MaxClock

\* { ...a, ...b }
Merge(a, b) ==
    [f \in DOMAIN a \cup DOMAIN b |-> IF f \in DOMAIN b THEN b[f] ELSE a[f]]

\* what addAsset receives: Omit<Asset, 'id'>
AssetData ==
    [asset_tag : AssetTags, item_type : ItemTypes, location : Locations,
     last_seen : 1 .. MaxClock, notes : AssetNotes]

\* a value is truthy: present and not the empty string
Truthy(r, f) == f \in DOMAIN r /\ r[f] # ""

\* assets.find(a => a.id === id) is not undefined
HasId(assets, id) == \E i \in DOMAIN assets : assets[i].id = id
\* assets.find(a => a.id === id): the first match, or undefined
FindById(assets, id) ==
    IF HasId(assets, id)
    THEN assets[CHOOSE i \in DOMAIN assets :
                    /\ assets[i].id = id
                    /\ \A k \in 1 .. i - 1 : assets[k].id # id]
    ELSE NULL

\* addAuditLog: the entry gets id Date.now() and is appended
addAuditLog(st, logData) ==
    [st EXCEPT !.auditLogs = Append(@, Merge(logData, [id |-> st.now]))]

\* addAsset: the asset gets id Date.now() and is appended; one REGISTERED entry
addAsset(st, assetData) ==
    LET newAsset == Merge(assetData, [id |-> st.now])
        s1 == [st EXCEPT !.assets = Append(@, newAsset)]
    IN  addAuditLog(s1, [asset_tag |-> assetData.asset_tag,
                         action |-> "REGISTERED",
                         timestamp |-> st.now,
                         location |-> assetData.location,
                         notes |-> "Added " \o assetData.item_type])

\* updateAsset: every asset with that id is merged with the updates; a truthy
\* updates.location adds one MOVED entry when an asset with that id is found
updateAsset(st, id, updates) ==
    LET s1 == [st EXCEPT !.assets =
                   [i \in DOMAIN st.assets |->
                       IF st.assets[i].id = id
                       THEN Merge(st.assets[i], updates) ELSE st.assets[i]]]
        asset == FindById(s1.assets, id)
    IN  IF Truthy(updates, "location") /\ HasId(s1.assets, id)
        THEN addAuditLog(s1, [asset_tag |-> asset.asset_tag,
                              action |-> "MOVED",
                              timestamp |-> st.now,
                              location |-> updates.location,
                              notes |-> IF Truthy(updates, "notes")
                                        THEN updates.notes ELSE "Location updated"])
        ELSE s1

\* a deleteAsset that does not look the asset up
deleteAsset_Mutant(st, id) ==
    addAuditLog([st EXCEPT !.assets = SelectSeq(@, LAMBDA a : a.id # id)],
                [asset_tag |-> NULL,
                 action |-> "DELETED",
                 timestamp |-> st.now,
                 location |-> NULL,
                 notes |-> DeletedNote])

\* deleteAsset: when an asset with that id is found, every asset with that id
\* is filtered out and one DELETED entry is added
deleteAsset(st, id) ==
    LET asset == FindById(st.assets, id)
    IN  IF HasId(st.assets, id)
        THEN addAuditLog([st EXCEPT !.assets = SelectSeq(@, LAMBDA a : a.id # id)],
                         [asset_tag |-> asset.asset_tag,
                          action |-> "DELETED",
                          timestamp |-> st.now,
                          location |-> asset.location,
                          notes |-> DeletedNote])
        ELSE st

\* setAuditLogs
setAuditLogs(st, logs) == [st EXCEPT !.auditLogs = logs]

\* what updateAsset receives from a caller that moves or clears the location
Updates == [location : {"Rack B", ""}]
\* what addAsset receives from a caller: a new asset seen now at Rack A
NewAssets(now) == {d \in AssetData : d.location = "Rack A" /\ d.last_seen = now}

\* the store of a fresh browser: assets: [], auditLogs: []
InitStore ==
    /\ variant = "store"
    /\ InitJobs
    /\ assess = NoAssess
    /\ store = [call |-> "store", assets |-> << >>, auditLogs |-> << >>, now |-> 1]

\* a call leaves room in the bounded store
Room == Len(store.assets) < MaxLogs /\ Len(store.auditLogs) < MaxLogs

\* the clock reaches its next millisecond
Tick ==
    /\ store.call \in {"store", "pages"}
    /\ store.now < MaxClock
    /\ store' = [store EXCEPT !.now = @ + 1]
    /\ UNCHANGED <<variant, assess, mounted, scanner, job, analysisHistory, toast>>

AddAsset(assetData) ==
    /\ store.call = "store" /\ Room
    /\ store' = addAsset(store, assetData)
    /\ UNCHANGED <<variant, assess, mounted, scanner, job, analysisHistory, toast>>

UpdateAsset(id, updates) ==
    /\ store.call = "store" /\ Len(store.auditLogs) < MaxLogs
    /\ store' = updateAsset(store, id, updates)
    /\ UNCHANGED <<variant, assess, mounted, scanner, job, analysisHistory, toast>>

DeleteAsset(id) ==
    /\ store.call = "store" /\ Len(store.auditLogs) < MaxLogs
    /\ store' = deleteAsset(store, id)
    /\ UNCHANGED <<variant, assess, mounted, scanner, job, analysisHistory, toast>>

SetAuditLogs(logs) ==
    /\ store.call = "store"
    /\ store' = setAuditLogs(store, logs)
    /\ UNCHANGED <<variant, assess, mounted, scanner, job, analysisHistory, toast>>

NextStore ==
    \/ Tick
    \/ \E assetData \in NewAssets(store.now) : AddAsset(assetData)
    \/ \E id \in AssetIds, updates \in Updates : UpdateAsset(id, updates)
    \/ \E id \in AssetIds : DeleteAsset(id)
    \/ \E logs \in {<< >>} : SetAuditLogs(logs)

SpecStore == InitStore /\ [][NextStore]_vars

\* ----------------------------------------------------------------------
\* The asset pages (RegisterAsset, SearchAsset) on the store
\* ----------------------------------------------------------------------
TagExistsMsg == "Asset tag already exists"
\* `Asset tag '${formData.asset_tag}' already exists!`
TagExistsToast(tag) == "Asset tag '" \o tag \o "' already exists!"

\* a comparison of tags that respects case
getAssetByTag_Mutant(assets, tag) ==
    {i \in DOMAIN assets : assets[i].asset_tag = tag}

\* the positions getAssetByTag compares equal: asset_tag.toLowerCase() ===
\* tag.toLowerCase(); find returns the first of them
getAssetByTag(assets, tag) ==
    {i \in DOMAIN assets : toLowerCase(assets[i].asset_tag) = toLowerCase(tag)}

\* String.prototype.trim on the locations typed
trim(l) == IF l = "Rack B " THEN "Rack B" ELSE l
\* what the location field of the search page can hold
TypedLocations == {"", "Rack A", "Rack B", "Rack B "}

\* what the form can hold when it is submitted: handleInputChange stores the
\* tag in upper case; the fields start empty
FormData ==
    [asset_tag : {toUpperCase(t) : t \in AssetTags} \cup {""},
     item_type : ItemTypes,
     location : {"Rack A"},
     notes : {""}]

\* an asset registered in an earlier session
PersistedAsset ==
    [id |-> 0, asset_tag |-> "db-001", item_type |-> "Dumbbell",
     location |-> "Rack A", last_seen |-> 0, notes |-> "Handle with care"]

\* the pages open on the rehydrated store: empty, or holding that asset
InitPages ==
    /\ variant = "store"
    /\ InitJobs
    /\ assess = NoAssess
    /\ \E persisted \in {<< >>, <<PersistedAsset>>} :
          store = [call |-> "pages", assets |-> persisted, auditLogs |-> << >>,
                   now |-> 1, errors |-> "", foundAsset |-> << >>,
                   message |-> ""]

\* validateForm: errors.asset_tag of the errors it sets
validateForm(formData) ==
    IF formData.asset_tag = "" THEN "Asset tag is required" ELSE ""
\* validateForm returns true
Valid(formData) ==
    formData.asset_tag # "" /\ formData.item_type # "" /\ formData.location # ""

\* handleSubmit of the registration form
HandleSubmit(formData) ==
    /\ store.call = "pages" /\ Room
    /\ IF ~Valid(formData)
       THEN store' = [store EXCEPT !.errors = validateForm(formData),
                                   !.message = "Please fill in all required fields"]
       ELSE IF getAssetByTag(store.assets, formData.asset_tag) # {}
       THEN store' = [store EXCEPT !.errors = TagExistsMsg,
                                   !.message = TagExistsToast(formData.asset_tag)]
       ELSE store' = [addAsset(store, Merge(formData, [last_seen |-> store.now]))
                         EXCEPT !.errors = validateForm(formData),
                                !.message = "Asset " \o formData.asset_tag
                                           \o " registered successfully!"]
    /\ UNCHANGED <<variant, assess, mounted, scanner, job, analysisHistory, toast>>

\* handleSearch of the search page, from the click to the end of its delay
HandleSearch(searchTag) ==
    /\ store.call = "pages"
    /\ LET found == getAssetByTag(store.assets, searchTag)
           \* find returns the first asset that matches
           first == CHOOSE i \in found : \A k \in found : i <= k
       IN  IF found # {}
           THEN store' = [store EXCEPT !.foundAsset = <<store.assets[first]>>,
                                       !.message = "Asset found!"]
           ELSE store' = [store EXCEPT !.foundAsset = << >>,
                                       !.message = "Asset not found in database"]
    /\ UNCHANGED <<variant, assess, mounted, scanner, job, analysisHistory, toast>>

\* handleLocationUpdate of the search page with newLocation in the field
HandleLocationUpdate(newLocation) ==
    /\ store.call = "pages" /\ Len(store.auditLogs) < MaxLogs
    /\ IF store.foundAsset = << >> \/ trim(newLocation) = ""
       THEN store' = [store EXCEPT !.message = "Please enter a new location"]
       ELSE IF trim(newLocation) = store.foundAsset[1].location
       THEN \* toast.info(...): the toast is shown only if the library has
            \* that function; otherwise the call throws and nothing is set
            store' = IF "info" \in ToastMethods
                     THEN [store EXCEPT !.message = "Location unchanged"] ELSE store
       ELSE LET updates == [location |-> trim(newLocation),
                            last_seen |-> store.now,
                            notes |-> SearchPageNote]
                s1 == updateAsset(store, store.foundAsset[1].id, updates)
            IN  store' = [s1 EXCEPT
                            !.foundAsset =
                                <<Merge(store.foundAsset[1],
                                        [location |-> trim(newLocation),
                                         last_seen |-> store.now])>>,
                            !.message = "Location updated successfully!"]
    /\ UNCHANGED <<variant, assess, mounted, scanner, job, analysisHistory, toast>>

\* handleClear of the search page
HandleClear ==
    /\ store.call = "pages"
    /\ store.foundAsset # << >>
    /\ store' = [store EXCEPT !.foundAsset = << >>]
    /\ UNCHANGED <<variant, assess, mounted, scanner, job, analysisHistory, toast>>

NextPages ==
    \/ Tick
    \/ \E formData \in FormData : HandleSubmit(formData)
    \/ \E searchTag \in AssetTags : HandleSearch(searchTag)
    \/ \E newLocation \in TypedLocations : HandleLocationUpdate(newLocation)
    \/ HandleClear

SpecPages == InitPages /\ [][NextPages]_vars

\* ======================================================================
\* Properties of the poll loop
\* ======================================================================
\* responses that leave the job running
NonFinal == {r \in Responses : r.status \in {"pending", "processing"}}
\* a status check of job j awaits its answer
Awaited(j) == job[j].requests > 0
\* job j is left without a request in flight and without a follow-up timer
Quiet(jr) == jr.requests = 0 /\ jr.timers = 0

\* C1 as stated: when every status check answers 'pending' or 'processing'
\* the poller issues exactly 30 checks (maxRetries), the answer to the 30th
\* ends the job in Failed with the timeout reason, and no 31st check is issued.
C1_Original ==
    [][\A j \in Jobs :
          /\ job'[j].checks <= maxRetries
          /\ Awaited(j) => \A r \in NonFinal : StatusResponse(j, r) =>
                IF job[j].checks < maxRetries
                THEN job'[j].pc = "polling" /\ job'[j].timers = 1
                ELSE /\ job'[j].pc = "failed" /\ Quiet(job'[j])
                     /\ toast' = <<j, TimeoutMsg>>]_vars

\* C1 amended: when every status check answers 'pending' or 'processing' the
\* poller issues exactly 31 checks (the first one and maxRetries = 30 retries):
\* each of the answers 1..30 schedules one more check, the answer to check 31
\* ends the job in Failed with the timeout reason, and no 32nd check is issued.
C1_Timeout ==
    [][\A j \in Jobs :
          /\ job'[j].checks <= maxRetries + 1
          /\ Awaited(j) => \A r \in NonFinal : StatusResponse(j, r) =>
                IF job[j].checks < maxRetries + 1
                THEN job'[j].pc = "polling" /\ job'[j].timers = 1
                ELSE /\ job'[j].pc = "failed" /\ Quiet(job'[j])
                     /\ toast' = <<j, TimeoutMsg>>
                     /\ (job[j].attached =>
                            scanner'.error = TimeoutMsg /\ ~scanner'.isAnalyzing)]_vars

\* a job has just timed out on the mounted scanner
C1_Witness ==
    \E j \in Jobs :
        /\ job[j].pc = "failed" /\ toast = <<j, TimeoutMsg>>
        /\ scanner.error = TimeoutMsg /\ ~scanner.isAnalyzing

\* the scanner that started job j was unmounted while the job was running
Abandoned(j) == job[j].pc \in {"submitting", "polling"} /\ Outstanding(j) /\ ~job[j].attached

\* C2 as stated: once the scanner flow of a running job is abandoned, no
\* further status check is issued or scheduled for the job, and the job
\* produces no toast and no history entry.
C2_Cancelled ==
    [][\A j \in Jobs : Abandoned(j) =>
          /\ job'[j].checks <= job[j].checks
          /\ job'[j].timers <= job[j].timers
          /\ toast'[1] # j
          /\ \A i \in 1 .. Len(analysisHistory') :
                analysisHistory'[i].id = j => i <= Len(analysisHistory)]_vars

\* C3: a status check that fails at transport level ends the job at once in
\* Failed with the message of that error as the displayed reason (toast and,
\* on the mounted scanner, the error alert), isAnalyzing becomes false, and
\* no request or timer of the job is left: the call is not retried.
C3_TransportFatal ==
    [][\A j \in Jobs : Awaited(j) => \A msg \in TransportErrors : StatusError(j, msg) =>
          /\ job'[j].pc = "failed" /\ Quiet(job'[j])
          /\ toast' = <<j, msg>>
          /\ (job[j].attached =>
                 scanner'.error = msg /\ ~scanner'.isAnalyzing)]_vars

\* a transport error has just ended a job that had answered 'processing' before
C3_Witness ==
    \E j \in Jobs : \E msg \in TransportErrors :
        /\ job[j].pc = "failed" /\ toast = <<j, msg>>
        /\ scanner.error = msg /\ ~scanner.isAnalyzing
        /\ scanner.analysisStatus = "processing"

\* C4 as stated: a started poll loop is never left non-terminal with no status
\* check in flight and no follow-up check scheduled.
C4_NeverStalls ==
    \A j \in Jobs : job[j].pc = "polling" => Outstanding(j)

\* responses that report a finished analysis
CompletedOk == {r \in Responses : r.status = "completed"}
\* responses that report a failed analysis
RemoteFailed == {r \in Responses : r.status = "failed"}

\* C5: after n-1 answers 'pending' or 'processing' and then 'completed' the
\* poller has issued exactly n checks: every non-final answer within the
\* budget schedules one follow-up with the 2000 ms delay and issues nothing
\* itself, the timer issues exactly one check, and the completed answer ends
\* the job in Completed with its equipment list and metadata on the scanner.
C5_PollToCompletion ==
    [][\A j \in Jobs :
          /\ Awaited(j) => \A r \in NonFinal :
                StatusResponse(j, r) /\ job[j].checks <= maxRetries =>
                /\ job'[j].timers = 1 /\ job'[j].delay = pollDelayMs
                /\ job'[j].requests = 0 /\ job'[j].checks = job[j].checks
                /\ job'[j].retries = job[j].retries + 1
          /\ TimerFire(j) =>
                /\ job'[j].checks = job[j].checks + 1
                /\ job'[j].requests = 1 /\ job'[j].timers = 0
          /\ Awaited(j) => \A r \in CompletedOk : StatusResponse(j, r) =>
                /\ job[j].checks = job[j].retries + 1
                /\ job'[j].pc = "completed" /\ Quiet(job'[j])
                /\ toast' = <<j, CompletedToast>>
                /\ (job[j].attached =>
                       /\ scanner'.equipmentItems = Equipment(j, r.payload)
                       /\ scanner'.analysisMetadata = j
                       /\ scanner'.analysisStatus = "completed"
                       /\ ~scanner'.isAnalyzing)]_vars

\* a job has just completed and its equipment is on the scanner
C5_Witness ==
    \E j \in Jobs :
        /\ job[j].pc = "completed" /\ toast = <<j, CompletedToast>>
        /\ scanner.equipmentItems = <<j>> /\ scanner.analysisMetadata = j
        /\ scanner.analysisStatus = "completed" /\ ~scanner.isAnalyzing

\* C6: for every job at most one status check is outstanding: never two
\* requests in flight, never a request in flight together with a pending
\* follow-up timer, never two follow-up timers.
C6_OneOutstanding ==
    \A j \in Jobs : job[j].requests + job[j].timers <= 1

\* a follow-up check of a job is in flight
C6_Witness ==
    \E j \in Jobs : job[j].requests = 1 /\ job[j].checks >= 2 /\ job[j].timers = 0

\* C7 as stated: at most one job is non-terminal at any time (its submission
\* in flight or its poll outstanding), whatever the user does.
C7_SingleJob ==
    Cardinality({j \in Jobs : job[j].pc = "submitting"
                              \/ (job[j].pc = "polling" /\ Outstanding(j))}) <= 1

\* the history entries of job j
EntriesOf(h, j) == {i \in 1 .. Len(h) : h[i].id = j}

\* C8: Completed and Failed are terminal: a job in either state has no
\* request in flight and no timer pending, it takes no further step (its
\* record never changes), and it emits no toast and no history entry.
C8_Terminal ==
    [][\A j \in Jobs : Terminal(j) =>
          /\ Quiet(job[j])
          /\ job'[j] = job[j]
          /\ toast'[1] # j
          /\ EntriesOf(analysisHistory', j) = EntriesOf(analysisHistory, j)]_vars

\* one job has completed, another has failed
C8_Witness ==
    \E j, k \in Jobs : job[j].pc = "completed" /\ job[k].pc = "failed"

\* C9 as stated: a 'failed' answer ends the job in Failed with the backend's
\* error_message itself as the displayed reason, and the reason is not empty.
C9_Original ==
    [][\A j \in Jobs : Awaited(j) => \A r \in RemoteFailed : StatusResponse(j, r) =>
          /\ job'[j].pc = "failed"
          /\ toast' = <<j, r.error_message>>
          /\ toast'[2] \notin {NULL, ""}]_vars

\* C9 amended: a 'failed' answer ends the job in Failed with the backend's
\* error_message shown verbatim when it is a non-empty string and with
\* 'Analysis failed' when it is null or empty; every job that ends in Failed
\* carries a non-empty reason that is shown as a toast and, on the mounted
\* scanner, in the error alert.
C9_FailureReason ==
    [][\A j \in Jobs :
          /\ Awaited(j) => \A r \in RemoteFailed : StatusResponse(j, r) =>
                /\ job'[j].pc = "failed" /\ Quiet(job'[j])
                /\ toast' = <<j, IF r.error_message \in {NULL, ""}
                                 THEN "Analysis failed" ELSE r.error_message>>
          /\ (job[j].pc # "failed" /\ job'[j].pc = "failed") =>
                /\ toast'[1] = j /\ toast'[2] \notin {NULL, ""}
                /\ (job[j].attached =>
                       scanner'.error = toast'[2] /\ ErrorAlertVisible(scanner'))]_vars

\* the backend's own message has just been shown for a failed job
C9_Witness ==
    \E j \in Jobs : \E r \in RemoteFailed :
        /\ r.error_message \notin {NULL, ""}
        /\ job[j].pc = "failed" /\ toast = <<j, r.error_message>>
        /\ scanner.error = r.error_message /\ scanner.analysisStatus = "failed"

\* the scanner shows no results
NoResults(s) == s.equipmentItems = << >> /\ s.analysisMetadata = NoJob

\* C10 as stated: no partial results are committed: while a job of the
\* mounted scanner is non-terminal, and when it ends in Failed, the equipment
\* items are empty, the analysis metadata is null and the history has no
\* entry of the job; items, metadata and history are set only by a status
\* check that reports 'completed', which appends exactly one history entry
\* for its job.
C10_NoPartialResults ==
    [][/\ \A j \in Jobs : NonTerminal(j) /\ job[j].attached =>
             /\ NoResults(scanner) /\ EntriesOf(analysisHistory, j) = {}
             /\ job'[j].pc = "failed" =>
                   NoResults(scanner') /\ EntriesOf(analysisHistory', j) = {}
       /\ ( \/ analysisHistory' # analysisHistory
            \/ scanner'.equipmentItems \notin {<< >>, scanner.equipmentItems}
            \/ scanner'.analysisMetadata \notin {NoJob, scanner.analysisMetadata} ) =>
             \E j \in Jobs : \E r \in CompletedOk :
                /\ StatusResponse(j, r)
                /\ Len(analysisHistory') = Len(analysisHistory) + 1
                /\ EntriesOf(analysisHistory', j) = {Len(analysisHistory')}]_vars

\* ======================================================================
\* Properties of the quality assessment in the scanner
\* ======================================================================
\* C11 as stated: the assessment is advisory: whatever tier it computes for
\* the image of job j, analyzeImage goes on to submit the image.
C11_Advisory ==
    [][\A j \in Jobs : job[j].pc = "quality" =>
          \A tier \in Tiers : QualityDone(j, tier) => job'[j].pc = "submitting"]_vars

\* job j starts on the mounted scanner in this step
Starts(j) ==
    /\ job[j].pc \in {"idle", "processing"}
    /\ job'[j].pc \in {"quality", "submitting"}
    /\ job'[j].attached

\* C12 as stated: the quality metrics of the scanner are null after every
\* reset of the scanner and after every start of a new submission, and no
\* entry of the persisted history carries them.
C12_MetricsDiscarded ==
    [][/\ ResetScannerComplete => scanner'.imageQualityMetrics = NULL
       /\ \A j \in Jobs : Starts(j) => scanner'.imageQualityMetrics = NULL
       /\ \A i \in 1 .. Len(analysisHistory') :
             DOMAIN analysisHistory'[i] = {"id", "image"}]_vars

\* ======================================================================
\* Properties of the image quality assessor
\* ======================================================================
\* determineQuality has returned for the metrics in assess
Scored == assess.call = "metrics" /\ assess.stage \in {"quality", "done"}
\* generateRecommendations has returned for the metrics in assess
Recommended == assess.call = "metrics" /\ assess.stage = "done"

Range(seq) == {seq[i] : i \in 1 .. Len(seq)}

\* C14: the recommendations are never empty, and they contain the 'quality
\* is optimal' message exactly when no deficiency holds (brightness < 80,
\* brightness > 220, contrast < 20, sharpness < 5, pixel count < 307,200).
C14_Recommendations ==
    Recommended =>
        /\ Len(assess.recommendations) >= 1
        /\ RecOptimal \in Range(assess.recommendations)
              <=> ~ \/ assess.brightness < 80
                    \/ assess.brightness > 220
                    \/ assess.contrast < 20
                    \/ assess.sharpness < 5
                    \/ assess.pixels < 307200

\* metrics without a deficiency got the optimal message alone
C14_Witness ==
    /\ Recommended /\ assess.recommendations = <<RecOptimal>>
    /\ assess.brightness = 220 /\ assess.contrast = 20

\* C15: several deficiencies are listed in the order lighting, contrast,
\* sharpness, resolution, with at most one lighting suggestion; a 320x240
\* image of brightness 50 gets the lighting suggestion before the resolution
\* suggestion.
C15_RecommendationOrder ==
    Recommended =>
        LET rec == assess.recommendations
            Rank(m) == IF m \in {RecIncreaseLight, RecReduceLight} THEN 1
                       ELSE IF m = RecContrast THEN 2
                       ELSE IF m = RecSharpness THEN 3
                       ELSE IF m = RecResolution THEN 4
                       ELSE 5
        IN /\ \A i, k \in 1 .. Len(rec) : i < k => Rank(rec[i]) < Rank(rec[k])
           /\ (assess.brightness = 50 /\ assess.pixels = 76800) =>
                 \E i, k \in 1 .. Len(rec) :
                    i < k /\ rec[i] = RecIncreaseLight /\ rec[k] = RecResolution

\* a dark, flat, blurred 320x240 image got all four suggestions
C15_Witness ==
    /\ Recommended
    /\ assess.brightness = 50 /\ assess.pixels = 76800
    /\ assess.recommendations =
          <<RecIncreaseLight, RecContrast, RecSharpness, RecResolution>>

\* C16: with contrast, sharpness and pixel count fixed the score does not
\* decrease as brightness moves from 0 up to 120 and does not increase as it
\* moves from 180 up to 255.
C16_BrightnessMonotone ==
    Scored =>
        LET score(b) == QualityScore(b, assess.contrast, assess.sharpness, assess.pixels)
            b2 == assess.brightness
        IN \A b1 \in 0 .. MaxByte :
              /\ (b1 <= b2 /\ b2 <= 120) => score(b1) <= score(b2)
              /\ (b2 <= b1 /\ b1 <= 120) => score(b2) <= score(b1)
              /\ (180 <= b1 /\ b1 <= b2) => score(b1) >= score(b2)
              /\ (180 <= b2 /\ b2 <= b1) => score(b2) >= score(b1)

\* a brightness between the extreme and the optimal band has been scored
C16_Witness ==
    /\ Scored /\ assess.brightness = 100 /\ assess.quality = "good"

\* every pixel of the canvas has the colour of the first one
UniformData(data) ==
    \A i \in DOMAIN data : data[i] = data[i % 4]
\* the three metrics of the canvas in assess have been computed
Measured == assess.call = "image" /\ assess.stage \in {"metrics", "quality", "done"}

\* C17: for every image of at least 3x3 pixels whose pixels all have the same
\* colour the computed contrast is 0, the computed sharpness is 0 and the
\* computed brightness equals the luma 0.299 R + 0.587 G + 0.114 B of the colour.
C17_UniformImage ==
    (/\ Measured /\ UniformData(assess.data)
     /\ assess.width >= 3 /\ assess.height >= 3) =>
        /\ assess.contrast = 0
        /\ assess.sharpness = 0
        /\ 1000 * assess.brightness = Luminance(assess.data, 0)

\* ======================================================================
\* Properties of the scanner state
\* ======================================================================
\* C18: the status label of the scanner is 'pending' from the submission on,
\* before any status check, and the answer to a status check moves it only
\* along the allowed transitions (pending to processing, completed or failed;
\* processing to processing, completed or failed), never from 'processing'
\* back to 'pending', whatever the backend reports.
C18_StatusLabel ==
    [][LET LabelStep(from, to) ==
               /\ from = "pending" =>
                     to \in {"pending", "processing", "completed", "failed"}
               /\ from = "processing" =>
                     to \in {"processing", "completed", "failed"}
               /\ from \in {"completed", "failed"} => to = from
           \* job j is the only job in progress, on the mounted scanner
           Alone(j) == job[j].attached /\ \A i \in Jobs \ {j} : ~Active(i)
       IN  \A j \in Jobs :
              /\ Starts(j) => scanner'.analysisStatus = "pending"
              /\ (Awaited(j) /\ Alone(j)) =>
                    \A r \in Responses : StatusResponse(j, r) =>
                        LabelStep(scanner.analysisStatus,
                                  scanner'.analysisStatus)]_vars

\* C19: the history entry appended when a job completes carries the image
\* submitted for that job: its image is the data URL of the image just
\* analysed, never the empty string and never the image of an earlier scan.
C19_HistoryImage ==
    \A i \in 1 .. Len(analysisHistory) :
        analysisHistory[i].image = DataUrl(Img(analysisHistory[i].id))

\* C20: in every reachable state isAnalyzing is true exactly while a job is
\* in progress, from the start of analyzeImage to the terminal outcome of the
\* job, and currentJobId is non-null only while isAnalyzing is true; after
\* every terminal outcome isAnalyzing is false and currentJobId is null.
C20_AnalyzingFlag ==
    LET \* analyzeImage has started job j on the mounted scanner and the job
        \* has not reached a terminal outcome
        InProgress(j) ==
            job[j].attached /\ job[j].pc \in {"quality", "submitting", "polling"}
        \* job j polls no more and has reached no terminal outcome
        Stalled(j) == job[j].pc = "polling" /\ Quiet(job[j])
    IN  /\ (\E j \in Jobs : InProgress(j)) => scanner.isAnalyzing
        /\ scanner.isAnalyzing => \E j \in Jobs : InProgress(j) \/ Stalled(j)
        /\ scanner.currentJobId # NoJob => scanner.isAnalyzing

\* C21: when the submission request fails no status check is ever issued for
\* that image: the job ends in Failed with no request and no timer, and stays
\* so; the error's message is the toast and, on the mounted scanner, the error
\* alert; isAnalyzing is false, currentJobId is null and the history is as
\* it was.
C21_SubmitFailure ==
    [][\A j \in Jobs :
          /\ job[j].pc = "submitting" =>
                \A msg \in TransportErrors : SubmitFail(j, msg) =>
                    /\ job'[j].pc = "failed" /\ ~job'[j].created
                    /\ Quiet(job'[j])
                    /\ toast' = <<j, msg>>
                    /\ analysisHistory' = analysisHistory
                    /\ (job[j].attached =>
                           /\ scanner'.error = msg
                           /\ ~scanner'.isAnalyzing
                           /\ scanner'.currentJobId = NoJob)
          /\ (job[j].pc = "failed" /\ ~job[j].created) =>
                (job'[j] = job[j] /\ \A i \in 1 .. Len(analysisHistory') :
                                        analysisHistory'[i].id # j)]_vars

\* the submission of a job has just failed on the mounted scanner
C21_Witness ==
    \E j \in Jobs : \E msg \in TransportErrors :
        /\ job[j].pc = "failed" /\ ~job[j].created
        /\ toast = <<j, msg>>
        /\ mounted /\ scanner.error = msg /\ ~scanner.isAnalyzing
        /\ scanner.currentJobId = NoJob

\* C22: starting a new analysis clears the error, the equipment items and the
\* analysis metadata of the previous job before the new job is submitted, and
\* in every reachable state the items and the metadata displayed belong to the
\* most recently submitted job, never to an earlier one.
C22_LatestResults ==
    [][/\ \A j \in Jobs : Starts(j) =>
             /\ scanner'.error = NULL
             /\ NoResults(scanner')
       /\ \A j \in Jobs :
             (scanner'.analysisMetadata = j \/ scanner'.equipmentItems = <<j>>) =>
                 \* the image shown is that of the job started last
                 \A i \in Jobs \ {j} :
                     scanner'.capturedImage # DataUrl(Img(i))]_vars

C24_DistinctIds ==
    store.call = "store" =>
        \A i, k \in DOMAIN store.assets :
            i # k => store.assets[i].id # store.assets[k].id

\* C27: deleteAsset with an id that is not in the store changes nothing, and
\* updateAsset with an id that is not in the store leaves the assets and the
\* audit log unchanged, also when the update carries a location.
C27_MissingId ==
    [][store.call = "store" =>
          \A id \in AssetIds : ~HasId(store.assets, id) =>
              /\ DeleteAsset(id) => store' = store
              /\ \A updates \in Updates : UpdateAsset(id, updates) =>
                    /\ store'.assets = store.assets
                    /\ store'.auditLogs = store.auditLogs]_vars

\* the store holds an asset, and a delete and a move of an id it does not hold
\* return the store as it is
C27_Witness ==
    /\ store.call = "store" /\ Len(store.assets) >= 1
    /\ \E id \in AssetIds :
          /\ ~HasId(store.assets, id)
          /\ deleteAsset(store, id) = store
          /\ updateAsset(store, id, [location |-> "Rack B"]) = store

\* C25: submitting the registration form with a tag equal, ignoring case, to
\* the tag of an asset of the store is rejected with 'Asset tag already
\* exists' and leaves the assets and the audit log unchanged; hence after any
\* sequence of form registrations no two assets share a tag ignoring case.
C25_DuplicateTag ==
    [][store.call = "pages" =>
          /\ \A formData \in FormData :
                ( /\ \E i \in DOMAIN store.assets :
                        toLowerCase(store.assets[i].asset_tag)
                            = toLowerCase(formData.asset_tag)
                  /\ HandleSubmit(formData) ) =>
                    /\ store'.errors = TagExistsMsg
                    /\ store'.assets = store.assets
                    /\ store'.auditLogs = store.auditLogs
          \* no two assets of the store share a tag, ignoring case
          /\ \A i, k \in DOMAIN store'.assets :
                toLowerCase(store'.assets[i].asset_tag)
                    = toLowerCase(store'.assets[k].asset_tag) => i = k]_vars

\* the form has just rejected DB-001 while the store holds db-001 and no
\* asset tagged DB-001
C25_Witness ==
    /\ store.call = "pages"
    /\ store.errors = TagExistsMsg
    /\ store.message = TagExistsToast("DB-001")
    /\ \E i \in DOMAIN store.assets : store.assets[i].asset_tag = "db-001"
    /\ \A i \in DOMAIN store.assets : store.assets[i].asset_tag # "DB-001"

\* C26: updating the location of an asset from the search page changes only
\* the location and last_seen of that asset: its other fields, notably its
\* notes, and every other asset are left unchanged.
C26_LocationOnly ==
    [][(store.call = "pages" /\ store.foundAsset # << >>) =>
          \A newLocation \in TypedLocations : HandleLocationUpdate(newLocation) =>
              /\ DOMAIN store'.assets = DOMAIN store.assets
              /\ \A i \in DOMAIN store.assets :
                    IF store.assets[i].id = store.foundAsset[1].id
                    THEN \A f \in DOMAIN store.assets[i] \ {"location", "last_seen"} :
                            store'.assets[i][f] = store.assets[i][f]
                    ELSE store'.assets[i] = store.assets[i]]_vars

\* ======================================================================
\* Further properties of the image quality assessor
\* ======================================================================
\* C28: for all metrics, whenever generateRecommendations returns only the
\* message that the image quality is optimal, determineQuality does not return
\* 'poor' for the same metrics.
C28_OptimalNotPoor ==
    (Recommended /\ assess.recommendations = <<RecOptimal>>) =>
        assess.quality # "poor"

\* C29: calculateSharpness averages the Sobel gradient magnitude over the
\* interior pixels only: for a width x height image with both dimensions at
\* least 3 the gradients at the (width-2)*(height-2) pixels off the border
\* are summed and their number is the denominator, no gradient is taken at a
\* border pixel, and for an image with width or height below 3 the result is 0.
C29_InteriorOnly ==
    Measured =>
        LET w == assess.width
            h == assess.height
            centres == {p \in (0 .. w - 1) \X (0 .. h - 1) :
                           /\ p[1] > 0 /\ p[1] < w - 1
                           /\ p[2] > 0 /\ p[2] < h - 1}
        IN  IF w >= 3 /\ h >= 3
            THEN assess.sharpness =
                     Round(SumGradient(assess.data, w, centres),
                           1000 * (w - 2) * (h - 2))
            ELSE assess.sharpness = 0

\* the sharpness of a 4x3 canvas with an edge after its first column has been
\* computed: of its two interior pixels one lies on the edge (gradient 8)
C29_Witness ==
    /\ Measured
    /\ assess.width = 4 /\ assess.height = 3
    /\ ~UniformData(assess.data)
    /\ assess.data[0] # assess.data[4]
    /\ assess.sharpness = 4

====
